---------------------------- MODULE Spec2Model ----------------------------
(***************************************************************************)
(* Model of mcplates/von_mises_fisher.py: the Euler rotation builder and   *)
(* the VonMisesFisher distribution object (__init__, random, logp).        *)
(*                                                                         *)
(* Numbers.  A real number is carried as an exact rational <<n, d>> in     *)
(* lowest terms with d > 0.  A finite real the model cannot carry exactly  *)
(* (the value of a transcendental function away from the points where it   *)
(* is rational) is the single value Inexact, and every arithmetic          *)
(* operation on Inexact gives Inexact.                                     *)
(*                                                                         *)
(* Angles.  Degrees are rationals (36.87 is <<3687, 100>>).  Radians are   *)
(* carried in units of pi, so that np.pi is the rational 1 and             *)
(* d2r = np.pi/180. is 1/180.  sin and cos are exact on the grid of angles *)
(* q*90 + {0, 36.87, 53.13} degrees, where 36.87 stands for the angle      *)
(* whose cosine is 4/5 and whose sine is 3/5, and Inexact elsewhere.       *)
(***************************************************************************)
EXTENDS Integers, Sequences, FiniteSets, TLC

VARIABLES obj, rng, call, ret, branch, rotation_matrix, euler

vars == <<obj, rng, call, ret, branch, rotation_matrix, euler>>

---------------------------------------------------------------------------
(* Exact rational arithmetic (the float64 arithmetic of numpy and theano,  *)
(* without its rounding).                                                  *)

Abs(n) == IF n < 0 THEN -n ELSE n

RECURSIVE GCD(_, _)
GCD(a, b) == IF b = 0 THEN a ELSE GCD(b, a % b)

Q(n, d) ==
    LET g == GCD(Abs(n), Abs(d))
        s == IF d < 0 THEN -1 ELSE 1
    IN  <<(s * n) \div g, (s * d) \div g>>

R(n) == <<n, 1>>

Zero == R(0)
One == R(1)
Inexact == <<1, 0>>

IsExact(a) == a[2] # 0

Neg(a) == IF IsExact(a) THEN <<-a[1], a[2]>> ELSE Inexact

Add(a, b) ==
    IF IsExact(a) /\ IsExact(b)
    THEN LET g == GCD(a[2], b[2])
         IN  Q(a[1] * (b[2] \div g) + b[1] * (a[2] \div g), a[2] * (b[2] \div g))
    ELSE Inexact

Sub(a, b) == Add(a, Neg(b))

Mul(a, b) ==
    IF IsExact(a) /\ IsExact(b)
    THEN LET g1 == GCD(Abs(a[1]), b[2])
             g2 == GCD(Abs(b[1]), a[2])
         IN  Q((a[1] \div g1) * (b[1] \div g2), (a[2] \div g2) * (b[2] \div g1))
    ELSE Inexact

\* a / b for b # 0 (the callers never divide by an exact zero)
Div(a, b) ==
    IF IsExact(a) /\ IsExact(b) /\ b[1] # 0
    THEN Mul(a, Q(b[2], b[1]))
    ELSE Inexact

\* a <= b and a < b on exact rationals
Leq(a, b) ==
    LET g == GCD(a[2], b[2])
    IN  a[1] * (b[2] \div g) <= b[1] * (a[2] \div g)

Less(a, b) == Leq(a, b) /\ a # b

Geq(a, b) == Leq(b, a)

RECURSIVE ISqrtBetween(_, _, _)
ISqrtBetween(n, lo, hi) ==
    IF lo >= hi THEN lo
    ELSE LET mid == (lo + hi + 1) \div 2
         IN  IF mid * mid <= n THEN ISqrtBetween(n, mid, hi)
                               ELSE ISqrtBetween(n, lo, mid - 1)

ISqrt(n) == ISqrtBetween(n, 0, IF n < 46340 THEN n ELSE 46340)

\* np.sqrt: exact on squares of rationals, Inexact elsewhere
Sqrt(a) ==
    IF IsExact(a) /\ a[1] >= 0
       /\ ISqrt(a[1]) * ISqrt(a[1]) = a[1] /\ ISqrt(a[2]) * ISqrt(a[2]) = a[2]
    THEN Q(ISqrt(a[1]), ISqrt(a[2]))
    ELSE Inexact


---------------------------------------------------------------------------
(* Angles and the trigonometric functions.                                 *)

\* np.pi, in the model's unit for radians (multiples of pi)
pi == Q(1, 1)

d2r == Div(pi, R(180))
r2d == Div(R(180), pi)
eps == Q(1, 1000000)

\* 36.87 and 53.13 degrees in radians: the angles of the 3-4-5 triangle
Theta == Mul(Q(3687, 100), d2r)
CoTheta == Mul(Q(5313, 100), d2r)

\* (cos, sin) of an angle of the first quadrant, [0, pi/2)
BaseCosSin(rem) ==
    IF rem = Zero THEN <<One, Zero>>
    ELSE IF rem = Theta THEN <<Q(4, 5), Q(3, 5)>>
    ELSE IF rem = CoTheta THEN <<Q(3, 5), Q(4, 5)>>
    ELSE <<Inexact, Inexact>>

\* (cos, sin) of any angle: reduce modulo 2 pi, then by quadrant
CosSin(a) ==
    IF ~IsExact(a) THEN <<Inexact, Inexact>>
    ELSE LET t == a[1] % (2 * a[2])
             quadrant == (2 * t) \div a[2]
             b == BaseCosSin(Q(2 * t - quadrant * a[2], 2 * a[2]))
         IN  CASE quadrant = 0 -> <<b[1], b[2]>>
               [] quadrant = 1 -> <<Neg(b[2]), b[1]>>
               [] quadrant = 2 -> <<Neg(b[1]), Neg(b[2])>>
               [] quadrant = 3 -> <<b[2], Neg(b[1])>>

Cos(a) == CosSin(a)[1]
Sin(a) == CosSin(a)[2]

\* the grid angles of [0, 2 pi)
GridAngles ==
    { Add(Q(quadrant, 2), rem) : quadrant \in 0..3, rem \in {Zero, Theta, CoTheta} }

\* np.arccos: the angle of [0, pi] with the given cosine
ArcCos(v) ==
    CASE v = One -> Zero
      [] v = Q(4, 5) -> Theta
      [] v = Q(3, 5) -> CoTheta
      [] v = Zero -> Div(pi, R(2))
      [] v = Q(-3, 5) -> Sub(pi, CoTheta)
      [] v = Q(-4, 5) -> Sub(pi, Theta)
      [] v = R(-1) -> pi
      [] OTHER -> Inexact

\* np.arctan2(y, x): the angle of (-pi, pi] of the point (x, y), which is
\* arccos(x/r) above the x axis and -arccos(x/r) below it
ArcTan2(y, x) ==
    IF ~(IsExact(x) /\ IsExact(y)) THEN Inexact
    ELSE IF x = Zero /\ y = Zero THEN Zero
    ELSE LET r == Sqrt(Add(Mul(x, x), Mul(y, y)))
         IN  IF Geq(y, Zero) THEN ArcCos(Div(x, r)) ELSE Neg(ArcCos(Div(x, r)))

\* np.exp and np.log: exact only at exp(0) = 1 and log(1) = 0
Exp(a) == IF a = Zero THEN One ELSE Inexact
Log(a) == IF a = One THEN Zero ELSE Inexact

---------------------------------------------------------------------------
(* Arrays: a vector is a sequence, a matrix a sequence of rows.            *)

\* the sequence f with its elements evaluated
Array(f) == f \o <<>>

RECURSIVE SumSeq(_)
SumSeq(s) == IF s = <<>> THEN Zero ELSE Add(Head(s), SumSeq(Tail(s)))

\* np.dot of two vectors
Dot(u, v) == SumSeq(Array([i \in 1..Len(u) |-> Mul(u[i], v[i])]))

\* np.transpose of a matrix with at least one row
Transpose(m) == Array([j \in 1..Len(m[1]) |-> Array([i \in 1..Len(m) |-> m[i][j]])])

\* np.dot of two matrices
MatMul(a, b) ==
    Array([i \in 1..Len(a) |-> Array([j \in 1..Len(b[1]) |-> Dot(a[i], Transpose(b)[j])])])

\* np.dot of a matrix and a vector
MatVec(a, v) == Array([i \in 1..Len(a) |-> Dot(a[i], v)])

\* an array times a scalar
Scale(m, c) ==
    Array([i \in 1..Len(m) |-> Array([j \in 1..Len(m[i]) |-> Mul(m[i][j], c)])])

\* a rotation about the z axis (rot_alpha, rot_gamma)
RotZ(angle) ==
    << <<Cos(angle), Neg(Sin(angle)), Zero>>,
       <<Sin(angle), Cos(angle), Zero>>,
       <<Zero, Zero, One>> >>

\* a rotation about the y axis (rot_beta)
RotY(angle) ==
    << <<Cos(angle), Zero, Sin(angle)>>,
       <<Zero, One, Zero>>,
       <<Neg(Sin(angle)), Zero, Cos(angle)>> >>

\* faulty variant: the three rotations multiplied in the opposite order
EulerReversed(alpha, beta, gamma) ==
    MatMul(RotZ(alpha), MatMul(RotY(beta), RotZ(gamma)))

construct_euler_rotation_matrix(alpha, beta, gamma) ==
    LET rot_alpha == RotZ(alpha)
        rot_beta == RotY(beta)
        rot_gamma == RotZ(gamma)
        rot == MatMul(rot_gamma, MatMul(rot_beta, rot_alpha))
    IN  rot

---------------------------------------------------------------------------
(* Bounds and the inputs the operations are called with.                   *)

MaxSize == 2
MaxBatch == 2
MaxDraws == 5

Deg(hundredths) == Q(hundredths, 100)

\* (longitude, colatitude) pairs in degrees given to the constructor; the
\* last one has its colatitude outside [0, 180]
MeanDirections ==
    { <<Deg(0), Deg(0)>>, <<Deg(0), Deg(9000)>>, <<Deg(3687), Deg(5313)>>,
      <<Deg(21687), Deg(12687)>>, <<Deg(0), Deg(21687)>> }

Kappas == { R(-1), Zero, Q(1, 2000000), eps, R(1), R(10) }

\* (longitude, colatitude) pairs in degrees given to logp; the last two are
\* out of support
LogpPoints ==
    { <<Deg(0), Deg(0)>>, <<Deg(0), Deg(9000)>>, <<Deg(3687), Deg(5313)>>,
      <<Deg(-5313), Deg(18000)>>, <<Deg(0), Deg(-1000)>>, <<Deg(0), Deg(19000)>> }

\* the batches given to logp: 1 to MaxBatch rows
LogpInputs == UNION { [1..n -> LogpPoints] : n \in 1..MaxBatch }

\* size=None is <<>>, size=n is <<n>>
SizeNone == <<>>
Sizes == {SizeNone} \cup { <<n>> : n \in 1..MaxSize }

\* values of st.uniform.rvs(loc=0., scale=1.), in [0, 1)
ZetaDraws == { Zero, Q(1, 10), Q(1, 2) }
PhiDraws == { Zero, Q(1229, 12000) }

EulerAngles == GridAngles

---------------------------------------------------------------------------
(* theano: a symbolic comparison.  value is what the graph evaluates to;   *)
(* is_nonzero is what Python's bool() of the graph variable returns, which *)
(* theano.tensor.ge leaves at the class default, True.                     *)

TensorGe(a, b) == [op |-> "ge", value |-> Geq(a, b), is_nonzero |-> TRUE]

Truth(v) == v.is_nonzero
Eval(v) == v.value

\* theano.tensor.all of a vector of booleans
All(conds) == \A i \in DOMAIN conds : conds[i]

---------------------------------------------------------------------------
(* The distribution object.                                                *)

NoObject ==
    [constructed |-> FALSE, lon_colat |-> <<Zero, Zero>>,
     mu |-> <<Zero, Zero, Zero>>, kappa |-> Zero, mean |-> <<Zero, Zero>>]

NoReturn == [kind |-> "none", exc |-> "", val |-> <<>>]
Raise(exc) == [kind |-> "raise", exc |-> exc, val |-> <<>>]
Return(kind, val) == [kind |-> kind, exc |-> "", val |-> val]

\* faulty variant: sine and cosine of the colatitude exchanged (latitude for colatitude)
InitMuLatitude(lon_colat) ==
    LET lon == Mul(lon_colat[1], d2r)
        colat == Mul(lon_colat[2], d2r)
    IN  << Mul(Cos(colat), Cos(lon)), Mul(Cos(colat), Sin(lon)), Sin(colat) >>

\* self.mu of __init__
InitMu(lon_colat) ==
    LET lon == Mul(lon_colat[1], d2r)
        colat == Mul(lon_colat[2], d2r)
    IN  << Mul(Sin(colat), Cos(lon)), Mul(Sin(colat), Sin(lon)), Cos(colat) >>

\* the assert of __init__
InitAssert(kappa) == Truth(TensorGe(kappa, Zero))

\* the object __init__ builds
NewObject(lon_colat, kappa) ==
    [constructed |-> TRUE, lon_colat |-> lon_colat,
     mu |-> InitMu(lon_colat), kappa |-> kappa, mean |-> lon_colat]

Construct(lon_colat, kappa) ==
    /\ ~obj.constructed
    /\ IF InitAssert(kappa)
       THEN /\ obj' = NewObject(lon_colat, kappa)
            /\ ret' = NoReturn
       ELSE /\ obj' = obj
            /\ ret' = Raise("AssertionError")
    /\ call' = [op |-> "init", arg |-> <<lon_colat, kappa>>]
    /\ branch' = "none"
    /\ UNCHANGED <<rng, rotation_matrix, euler>>

---------------------------------------------------------------------------
(* random                                                                  *)

\* faulty variant: longitude and colatitude exchanged
RotationForMeanSwapped(lon_colat) ==
    construct_euler_rotation_matrix(Zero, Mul(lon_colat[1], d2r), Mul(lon_colat[2], d2r))

\* rotation_matrix of random
RotationForMean(lon_colat) ==
    construct_euler_rotation_matrix(Zero, Mul(lon_colat[2], d2r), Mul(lon_colat[1], d2r))

\* faulty variant: kappa <= eps
RandomBranchLeq(kappa) == IF Leq(kappa, eps) THEN "uniform" ELSE "vmf"

\* the branch of cartesian_sample_generator
RandomBranch(kappa) == IF Less(kappa, eps) THEN "uniform" ELSE "vmf"

\* z of cartesian_sample_generator, for one draw zeta
SampleZ(kappa, zeta) ==
    IF RandomBranch(kappa) = "uniform"
    THEN Sub(Mul(R(2), zeta), One)
    ELSE Add(One, Mul(Div(One, kappa),
                      Log(Add(zeta, Mul(Sub(One, zeta), Exp(Mul(R(-2), kappa)))))))

\* cartesian_sample_generator: zeta and u are the draws of the two rvs calls,
\* one per sample (a single one each when size is None)
cartesian_sample_generator(kappa, rotation, zeta, u) ==
    LET n == Len(zeta)
        z == Array([i \in 1..n |-> SampleZ(kappa, zeta[i])])
        phi == Array([i \in 1..n |-> Add(Zero, Mul(Mul(R(2), pi), u[i]))])
        x == Array([i \in 1..n |-> Mul(Sqrt(Sub(One, Mul(z[i], z[i]))), Cos(phi[i]))])
        y == Array([i \in 1..n |-> Mul(Sqrt(Sub(One, Mul(z[i], z[i]))), Sin(phi[i]))])
        unrotated_samples == <<x, y, z>>
    IN  Transpose(MatMul(rotation, unrotated_samples))

\* the last three lines of random: np.fromiter(..., count=size) takes an
\* integer count and raises TypeError for None
RandomReturn(size, cartesian_samples) ==
    IF size = SizeNone
    THEN Raise("TypeError")
    ELSE LET n == size[1]
             colat_samples ==
                 [i \in 1..n |->
                     LET s == cartesian_samples[i]
                     IN  ArcCos(Div(s[3], Sqrt(Dot(s, s))))]
             lon_samples ==
                 [i \in 1..n |->
                     LET s == cartesian_samples[i]
                     IN  ArcTan2(s[2], s[1])]
         IN  Return("array", Scale(Transpose(<<lon_samples, colat_samples>>), r2d))

RandomCall(size) ==
    LET n == IF size = SizeNone THEN 1 ELSE size[1]
    IN  /\ obj.constructed
        /\ rng + 2 * n <= MaxDraws
        /\ \E rotation \in {RotationForMean(obj.lon_colat)} :
           \E zeta \in [1..n -> ZetaDraws], u \in [1..n -> PhiDraws] :
           \E cartesian_samples \in
                  {cartesian_sample_generator(obj.kappa, rotation, zeta, u)} :
              /\ rotation_matrix' = rotation
              /\ ret' = RandomReturn(size, cartesian_samples)
              /\ branch' = RandomBranch(obj.kappa)
        /\ rng' = rng + 2 * n
        /\ call' = [op |-> "random", arg |-> size]
        /\ UNCHANGED <<obj, euler>>

---------------------------------------------------------------------------
(* logp.  A log-density is norm + lin: norm names the logarithm (a         *)
(* transcendental constant for a given kappa, taken at), lin is the exact  *)
(* term kappa * (dot - 1).                                                 *)

LogUniform == [norm |-> "log(1/(4 pi))", at |-> Zero, lin |-> Zero]
NegInf == [norm |-> "-inf", at |-> Zero, lin |-> Zero]
NaN == [norm |-> "nan", at |-> Zero, lin |-> Zero]

\* theano.tensor.log( -kappa / ( 2.*np.pi * theano.tensor.expm1(-2.*kappa)) ):
\* 0/0 at kappa = 0, the logarithm of a positive number elsewhere
LogVmfNorm(kappa) ==
    IF kappa = Zero THEN NaN
    ELSE [norm |-> "log(-kappa/(2 pi expm1(-2 kappa)))", at |-> kappa, lin |-> Zero]

PlusLin(term, q) == IF term = NaN THEN NaN ELSE [term EXCEPT !.lin = Add(@, q)]

\* faulty variant: theano.tensor.gt for theano.tensor.ge
LogpBranchGt(kappa) == IF Less(eps, kappa) THEN "vmf" ELSE "uniform"

\* the condition of the switch of logp
LogpBranch(kappa) == IF Eval(TensorGe(kappa, eps)) THEN "vmf" ELSE "uniform"

\* point of logp: one unit vector per input row (angles in radians)
LogpPoint(row) ==
    << Mul(Sin(row[2]), Cos(row[1])), Mul(Sin(row[2]), Sin(row[1])), Cos(row[2]) >>

\* pymc3's bound: the log-density where every condition holds, -inf elsewhere
Bound(value, cond1, cond2) ==
    IF cond1 /\ cond2 THEN value ELSE [i \in DOMAIN value |-> NegInf]

\* faulty variant: colatitude > 0
InSupportLowStrict(lon_colat_r) ==
    All([i \in DOMAIN lon_colat_r |-> Less(Zero, lon_colat_r[i][2])])

\* the two conditions logp gives to bound
InSupportLow(lon_colat_r) == All([i \in DOMAIN lon_colat_r |-> Geq(lon_colat_r[i][2], Zero)])
InSupportHigh(lon_colat_r) == All([i \in DOMAIN lon_colat_r |-> Leq(lon_colat_r[i][2], pi)])

\* logp of the object o at the rows lon_colat (degrees): one value per row
Logp(o, lon_colat) ==
    LET kappa == o.kappa
        mu == o.mu
        lon_colat_r == Scale(lon_colat, d2r)
        point == [i \in DOMAIN lon_colat_r |-> LogpPoint(lon_colat_r[i])]
        dots == MatVec(point, mu)
        value == [i \in DOMAIN lon_colat_r |->
                     IF LogpBranch(kappa) = "vmf"
                     THEN PlusLin(LogVmfNorm(kappa), Mul(kappa, Sub(dots[i], One)))
                     ELSE LogUniform]
    IN  Bound(value, InSupportLow(lon_colat_r), InSupportHigh(lon_colat_r))

\* faulty variant: logp draws from the random generator
LogpCallDraws(lon_colat) ==
    /\ obj.constructed
    /\ rng < MaxDraws
    /\ ret' = Return("logp", Logp(obj, lon_colat))
    /\ branch' = LogpBranch(obj.kappa)
    /\ call' = [op |-> "logp", arg |-> lon_colat]
    /\ rng' = rng + 1
    /\ UNCHANGED <<obj, rotation_matrix, euler>>

LogpCall(lon_colat) ==
    /\ obj.constructed
    /\ ret' = Return("logp", Logp(obj, lon_colat))
    /\ branch' = LogpBranch(obj.kappa)
    /\ call' = [op |-> "logp", arg |-> lon_colat]
    /\ UNCHANGED <<obj, rng, rotation_matrix, euler>>

---------------------------------------------------------------------------
(* A direct call of construct_euler_rotation_matrix on given angles.       *)

NoEuler == [called |-> FALSE, alpha |-> Zero, beta |-> Zero, gamma |-> Zero, rot |-> <<>>]

EulerCall ==
    /\ ~euler.called
    /\ euler' = [euler EXCEPT !.called = TRUE,
                              !.rot = construct_euler_rotation_matrix(
                                          euler.alpha, euler.beta, euler.gamma)]
    /\ UNCHANGED <<obj, rng, call, ret, branch, rotation_matrix>>

---------------------------------------------------------------------------
(* Specifications.                                                         *)

Init ==
    /\ obj = NoObject
    /\ rng = 0
    /\ call = [op |-> "none", arg |-> <<>>]
    /\ ret = NoReturn
    /\ branch = "none"
    /\ rotation_matrix = <<>>
    /\ euler = NoEuler

\* the life of one object: construction, then any calls of random and of
\* logp on one pair, in any order
Next ==
    \/ \E lon_colat \in MeanDirections, kappa \in Kappas : Construct(lon_colat, kappa)
    \/ \E size \in Sizes : RandomCall(size)
    \/ \E row \in LogpPoints : LogpCall(<<row>>)

Spec == Init /\ [][Next]_vars

\* logp as a function of the object and of a batch: any object the
\* constructor returns, and one call of logp on any batch
InitLogp ==
    /\ obj \in { NewObject(lon_colat, kappa) :
                   lon_colat \in MeanDirections,
                   kappa \in { k \in Kappas : InitAssert(k) } }
    /\ rng = 0
    /\ call = [op |-> "none", arg |-> <<>>]
    /\ ret = NoReturn
    /\ branch = "none"
    /\ rotation_matrix = <<>>
    /\ euler = NoEuler

NextLogp == \E lon_colat \in LogpInputs : call.op = "none" /\ LogpCall(lon_colat)

SpecLogp == InitLogp /\ [][NextLogp]_vars

\* construct_euler_rotation_matrix as a function of its three angles
InitEuler ==
    /\ obj = NoObject
    /\ rng = 0
    /\ call = [op |-> "none", arg |-> <<>>]
    /\ ret = NoReturn
    /\ branch = "none"
    /\ rotation_matrix = <<>>
    /\ euler \in { [NoEuler EXCEPT !.alpha = alpha, !.beta = beta, !.gamma = gamma] :
                     alpha \in EulerAngles, beta \in EulerAngles, gamma \in EulerAngles }

NextEuler == EulerCall

SpecEuler == InitEuler /\ [][NextEuler]_vars

---------------------------------------------------------------------------
(* Properties.  The definitions below restate the documented behaviour in  *)
(* terms of the inputs of the last call (call), its result (ret) and the   *)
(* stored object (obj).                                                    *)

\* a (longitude, colatitude) pair in degrees lies in the support
InSupportDeg(row) == Leq(Zero, row[2]) /\ Leq(row[2], R(180))

\* the unit vector (sin(colat) cos(lon), sin(colat) sin(lon), cos(colat))
UnitVector(row) ==
    LET lon == Div(Mul(row[1], pi), R(180))
        colat == Div(Mul(row[2], pi), R(180))
    IN  << Mul(Sin(colat), Cos(lon)), Mul(Sin(colat), Sin(lon)), Cos(colat) >>

IsFinite(v) == v.norm \notin {"-inf", "nan"}

\* a <= b for two log-densities of the same distribution
LogpLeq(a, b) ==
    \/ a = NegInf
    \/ /\ IsFinite(a) /\ IsFinite(b)
       /\ a.norm = b.norm /\ a.at = b.at
       /\ Leq(a.lin, b.lin)

\* C1: the constructor rejects every kappa < 0 (it raises and produces no
\* distribution object) and accepts every kappa >= 0.
C1_NegativeKappaRejected ==
    /\ obj.constructed => Geq(obj.kappa, Zero)
    /\ call.op = "init" =>
          IF Geq(call.arg[2], Zero)
          THEN obj.constructed /\ ret = NoReturn
          ELSE ~obj.constructed /\ ret = Raise("AssertionError")

\* C2: logp of a single (longitude, colatitude) pair never raises; it is
\* -infinity when the colatitude is below 0 or above 180 degrees and a
\* finite value when the colatitude is in [0, 180], boundaries included.
C2_OutOfSupportIsNegInf ==
    (call.op = "logp" /\ Len(call.arg) = 1) =>
        /\ ret.kind = "logp"
        /\ Len(ret.val) = 1
        /\ IF InSupportDeg(call.arg[1])
           THEN IsFinite(ret.val[1])
           ELSE ret.val[1] = NegInf

C2_Witness ==
    /\ call.op = "logp" /\ Len(call.arg) = 1
    /\ call.arg[1][2] = R(190)
    /\ Geq(obj.kappa, eps)
    /\ ret.val[1] = NegInf

\* C3: for a batch of n >= 2 pairs, entry i of the result is -infinity
\* exactly when the colatitude of input i is outside [0, 180] degrees.
C3_PerInputSupport ==
    (call.op = "logp" /\ Len(call.arg) >= 2) =>
        /\ ret.kind = "logp"
        /\ Len(ret.val) = Len(call.arg)
        /\ \A i \in 1..Len(call.arg) :
              (ret.val[i] = NegInf) <=> ~InSupportDeg(call.arg[i])

\* C4: random returns an array of shape [size, 2] for every size >= 1 and a
\* single pair, without raising, when size is None.
C4_RandomShape ==
    call.op = "random" =>
        /\ ret.kind = "array"
        /\ Len(ret.val) = (IF call.arg = SizeNone THEN 1 ELSE call.arg[1])
        /\ \A i \in 1..Len(ret.val) : Len(ret.val[i]) = 2

\* C5: construct_euler_rotation_matrix(alpha, beta, gamma) is the product
\* Rz(gamma) Ry(beta) Rz(alpha), written out entry by entry; it is
\* orthogonal; for multiples of 90 degrees its entries are in {-1, 0, 1}.
C5_EulerIsZYZ ==
    euler.called =>
        LET ca == Cos(euler.alpha)
            sa == Sin(euler.alpha)
            cb == Cos(euler.beta)
            sb == Sin(euler.beta)
            cg == Cos(euler.gamma)
            sg == Sin(euler.gamma)
            zyz == << << Sub(Mul(Mul(cg, cb), ca), Mul(sg, sa)),
                         Sub(Neg(Mul(Mul(cg, cb), sa)), Mul(sg, ca)),
                         Mul(cg, sb) >>,
                      << Add(Mul(Mul(sg, cb), ca), Mul(cg, sa)),
                         Add(Neg(Mul(Mul(sg, cb), sa)), Mul(cg, ca)),
                         Mul(sg, sb) >>,
                      << Neg(Mul(sb, ca)), Mul(sb, sa), cb >> >>
            identity == << <<One, Zero, Zero>>, <<Zero, One, Zero>>, <<Zero, Zero, One>> >>
            quarter_turns == { Q(k, 2) : k \in 0..3 }
        IN  /\ euler.rot = zyz
            /\ MatMul(euler.rot, Transpose(euler.rot)) = identity
            /\ {euler.alpha, euler.beta, euler.gamma} \subseteq quarter_turns =>
                  \A i \in 1..3, j \in 1..3 : euler.rot[i][j] \in {R(-1), Zero, One}

C5_Witness ==
    /\ euler.called
    /\ euler.alpha = Q(1, 2) /\ euler.beta = Q(1, 2) /\ euler.gamma = pi
    /\ euler.rot = << <<Zero, Zero, R(-1)>>, <<R(-1), Zero, Zero>>, <<Zero, One, Zero>> >>

\* C6: the rotation random builds maps the north pole (0, 0, 1) to the
\* stored mean vector mu, which is the unit vector of the mean direction.
C6_RotationMapsPoleToMean ==
    call.op = "random" =>
        /\ MatVec(rotation_matrix, <<Zero, Zero, One>>) = obj.mu
        /\ obj.mu = UnitVector(obj.lon_colat)

C6_Witness ==
    /\ call.op = "random"
    /\ obj.lon_colat = <<Deg(3687), Deg(5313)>>
    /\ MatVec(rotation_matrix, <<Zero, Zero, One>>) = <<Q(16, 25), Q(12, 25), Q(3, 5)>>

\* C7: at in-support inputs logp is the constant log(1/(4 pi)) when
\* kappa < eps, and log(-kappa/(2 pi expm1(-2 kappa))) + kappa (dot - 1)
\* when kappa >= eps, dot being the dot product of the unit vectors of the
\* input and of the mean direction.
C7_LogpFormula ==
    (call.op = "logp" /\ \A i \in 1..Len(call.arg) : InSupportDeg(call.arg[i])) =>
        \A i \in 1..Len(call.arg) :
            ret.val[i] =
                IF Less(obj.kappa, eps)
                THEN [norm |-> "log(1/(4 pi))", at |-> Zero, lin |-> Zero]
                ELSE [norm |-> "log(-kappa/(2 pi expm1(-2 kappa)))", at |-> obj.kappa,
                      lin |-> Mul(obj.kappa,
                                  Sub(Dot(UnitVector(call.arg[i]), UnitVector(obj.lon_colat)),
                                      One))]

C7_Witness ==
    /\ call.op = "logp" /\ Len(call.arg) = 1
    /\ obj.kappa = eps
    /\ obj.lon_colat = <<Deg(0), Deg(9000)>>
    /\ call.arg[1] = <<Deg(3687), Deg(5313)>>
    /\ ret.val[1].lin = Mul(eps, Q(-9, 25))

C9_NoMutableState ==
    /\ [][ /\ obj.constructed => obj' = obj
           /\ call'.op = "logp" => rng' = rng
           /\ call'.op = "random" => rng' > rng ]_vars
    /\ [](call.op = "logp" => ret = Return("logp", Logp(obj, call.arg)))

C9_Witness ==
    /\ call.op = "logp"
    /\ rng > 2
    /\ obj.kappa = R(10)
    /\ IsFinite(ret.val[1])

\* C10: random and logp take the small-kappa branch for the same kappa:
\* exactly when kappa < eps; at kappa = eps both take the concentrated one.
C10_SameBranch ==
    /\ call.op \in {"random", "logp"} => (branch = "uniform" <=> Less(obj.kappa, eps))
    /\ (call.op \in {"random", "logp"} /\ obj.kappa = eps) => branch = "vmf"
    /\ obj.constructed => RandomBranch(obj.kappa) = LogpBranch(obj.kappa)

C10_Witness ==
    /\ call.op = "random"
    /\ obj.kappa = eps
    /\ branch = "vmf"

===========================================================================
